---- MODULE Spec2Model ----
(***************************************************************************)
(* Josh's Storyboard (src/server.js): an express server that keeps an      *)
(* image catalog in memory (storyboardData), rewrites data.json after      *)
(* every mutation and keeps the uploaded blobs as files under uploads/.    *)
(*                                                                         *)
(* One action is one turn of the node event loop: a whole synchronous      *)
(* request handler, or one stage of multer's asynchronous upload.          *)
(***************************************************************************)
EXTENDS Integers, Sequences, FiniteSets, TLC

\* ------------------------------------------------------------------ bounds
MaxClock == 2       \* Date.now() ranges over 1..MaxClock
MaxImages == 2      \* uploads are accepted while the catalog is shorter
MaxInflight == 2    \* uploads whose blob is being written at the same time
MaxFiles == 3       \* an upload starts while entries plus uploads in flight are fewer
MaxFilesFault == 2  \* the same, in the runs with failing fs calls
MaxVisits == 1      \* root-page handler runs that are counted
MaxRnd == 1         \* Math.round(Math.random() * 1E9) ranges over 0..MaxRnd
MaxFaults == 1      \* failing fs calls and crashes in one run

VARIABLES
    storyboardData, \* the in-memory catalog: [images, stats]
    doc,            \* data.json: absent, well-formed text, or truncated text
    blobs,          \* the names of the files under uploads/
    inflight,       \* uploads between multer's file start and the handler, in arrival order
    now,            \* the value Date.now() returns
    req,            \* the request the last step worked on
    resp,           \* the response the last step sent (NoResp: none)
    fsops,          \* the fs calls of the last step in order, "throw" after one that
                    \* threw, and the console.log of delete's catch block
    faults,         \* the failing fs calls and crashes so far
    toggles         \* history: the catalogs before the last one or two requests, when
                    \* these were toggles of the same id that found it (oldest first)

vars == <<storyboardData, doc, blobs, inflight, now, req, resp, fsops, faults, toggles>>

\* ------------------------------------------------------------- strings
\* Strings the code inspects character by character are sequences of characters.
ImagePng == <<"i", "m", "a", "g", "e", "/", "p", "n", "g">>
TextPlain == <<"t", "e", "x", "t", "/", "p", "l", "a", "i", "n">>
ImageNoSlash == <<"i", "m", "a", "g", "e">>
MimeTypes == {ImagePng, TextPlain, ImageNoSlash}
ImagePrefix == <<"i", "m", "a", "g", "e", "/">>

StartsWith(s, p) == Len(s) >= Len(p) /\ SubSeq(s, 1, Len(p)) = p

\* req.body.title / description: undefined, empty or a text.
Missing == "<undefined>"
Titles == {Missing, "", "t"}
Descriptions == {Missing, "", "d"}
\* The title/description pairs tried: both given, title missing, title empty,
\* description empty.
Bodies == {<<"t", "d">>, <<Missing, "d">>, <<"", "d">>, <<"t", "">>}
\* The pairs tried with a file part the filter refuses.
FilteredBodies == {<<"t", "d">>, <<Missing, "d">>}
\* Mutant: only an absent field counts as missing.
FalsyMissingOnly(x) == x = Missing
Falsy(x) == x = Missing \/ x = ""

\* path.extname(file.originalname)
Exts == {".png"}

\* parseInt(req.params.id): the leading decimal digits, NaN when there are none.
NaN == -1
DigitChars == {"0", "1", "2", "3", "4", "5", "6", "7", "8", "9"}
DigitVal(c) ==
    CASE c = "0" -> 0 [] c = "1" -> 1 [] c = "2" -> 2 [] c = "3" -> 3 [] c = "4" -> 4
      [] c = "5" -> 5 [] c = "6" -> 6 [] c = "7" -> 7 [] c = "8" -> 8 [] c = "9" -> 9

RECURSIVE ParseDigits(_, _, _)
ParseDigits(s, i, acc) ==
    IF i > Len(s) \/ s[i] \notin DigitChars THEN acc
    ELSE ParseDigits(s, i + 1, acc * 10 + DigitVal(s[i]))

parseInt(s) ==
    IF Len(s) = 0 \/ s[1] \notin DigitChars THEN NaN ELSE ParseDigits(s, 1, 0)

DigitChar(n) ==
    CASE n = 0 -> "0" [] n = 1 -> "1" [] n = 2 -> "2" [] n = 3 -> "3" [] n = 4 -> "4"
      [] n = 5 -> "5" [] n = 6 -> "6" [] n = 7 -> "7" [] n = 8 -> "8" [] n = 9 -> "9"

\* The :id path parameters tried: every clock value, a non-number, a number with a tail.
IdParams ==
    {<<DigitChar(n)>> : n \in 1..MaxClock} \cup {<<"x">>, <<"1", "x">>}

\* ------------------------------------------------------------- catalog
EmptyData ==
    [images |-> <<>>,
     stats |-> [totalVisits |-> 0, totalImages |-> 0, totalFavorites |-> 0]]

\* images.filter(img => img.isFavorite).length
FavoriteCount(imgs) == Cardinality({i \in 1..Len(imgs) : imgs[i].isFavorite})

\* Mutant: the -1 of a failed search is used as an index, which splice and at()
\* read as the last element.
findIndexOrLast(imgs, imageId) ==
    IF \E i \in 1..Len(imgs) : imgs[i].id = imageId
    THEN CHOOSE i \in 1..Len(imgs) :
            /\ imgs[i].id = imageId
            /\ \A j \in 1..(i - 1) : imgs[j].id # imageId
    ELSE Len(imgs)

\* images.findIndex(img => img.id === imageId): the first match, 0 for -1.
findIndex(imgs, imageId) ==
    IF \E i \in 1..Len(imgs) : imgs[i].id = imageId
    THEN CHOOSE i \in 1..Len(imgs) :
            /\ imgs[i].id = imageId
            /\ \A j \in 1..(i - 1) : imgs[j].id # imageId
    ELSE 0

\* images.splice(imageIndex, 1)
splice(imgs, i) == SubSeq(imgs, 1, i - 1) \o SubSeq(imgs, i + 1, Len(imgs))

\* Mutant: push instead of unshift.
push(imgs, e) == imgs \o <<e>>

\* images.unshift(newImage)
unshift(imgs, e) == <<e>> \o imgs

\* ------------------------------------------------------------ data.json
\* JSON.stringify(storyboardData, null, 2): objects become key/value pairs in
\* property order, arrays stay sequences.
StringifyEntry(e) ==
    <<<<"id", e.id>>, <<"title", e.title>>, <<"description", e.description>>,
      <<"date", e.date>>, <<"isFavorite", e.isFavorite>>,
      <<"filename", e.filename>>, <<"url", e.url>>>>

StringifyStats(s) ==
    <<<<"totalVisits", s.totalVisits>>, <<"totalImages", s.totalImages>>,
      <<"totalFavorites", s.totalFavorites>>>>

Stringify(data) ==
    <<<<"images", [i \in 1..Len(data.images) |-> StringifyEntry(data.images[i])]>>,
      <<"stats", StringifyStats(data.stats)>>>>

\* JSON.parse: the value of a key of an object.
Member(obj, key) ==
    LET i == CHOOSE i \in 1..Len(obj) : obj[i][1] = key IN obj[i][2]

ParseEntry(o) ==
    [id |-> Member(o, "id"), title |-> Member(o, "title"),
     description |-> Member(o, "description"), date |-> Member(o, "date"),
     isFavorite |-> Member(o, "isFavorite"), filename |-> Member(o, "filename"),
     url |-> Member(o, "url")]

ParseStats(o) ==
    [totalVisits |-> Member(o, "totalVisits"), totalImages |-> Member(o, "totalImages"),
     totalFavorites |-> Member(o, "totalFavorites")]

Parse(text) ==
    LET imgs == Member(text, "images") IN
    [images |-> [i \in 1..Len(imgs) |-> ParseEntry(imgs[i])],
     stats |-> ParseStats(Member(text, "stats"))]

DocAbsent == [state |-> "absent", text |-> <<>>]
DocCorrupt == [state |-> "corrupt", text |-> <<>>]
DocOf(data) == [state |-> "ok", text |-> Stringify(data)]

\* Mutant: the load block is left out.
LoadNothing(d) == EmptyData

\* The try block at process start: data.json is read when it exists, and a parse
\* failure leaves the initial empty catalog.
Load(d) == IF d.state = "ok" THEN Parse(d.text) ELSE EmptyData

\* fs.writeFileSync('data.json', ...): "ok" replaces the file; "eopen" fails before
\* the file is touched; "partial" fails after it was truncated. Both failures throw.
WriteOutcomes == {"ok", "eopen", "partial"}
WriteThrows(w) == w # "ok"
writeFileSync(d, data, w) ==
    CASE w = "ok" -> DocOf(data)
      [] w = "eopen" -> d
      [] w = "partial" -> DocCorrupt

\* Mutant: the write is left out.
saveDataSkipped(d, data, w) == d

\* saveData()
saveData(d, data, w) == writeFileSync(d, data, w)

\* fs.unlinkSync(path): throws when the file is not there or the call fails.
UnlinkOutcomes == {"ok", "eperm"}
UnlinkThrows(files, fn, u) == fn \notin files \/ u # "ok"

\* The step makes n fs calls that fail for a reason outside the program.
Failing(n) == faults + n <= MaxFaults /\ faults' = faults + n
Cost(o) == IF o = "ok" THEN 0 ELSE 1
\* Mutant: the file stays.
unlinkSyncKeeps(files, fn, u) == files
unlinkSync(files, fn, u) == IF UnlinkThrows(files, fn, u) THEN files ELSE files \ {fn}

\* What a step records of an fs call.
Called(name, throws) == IF throws THEN <<name, "throw">> ELSE <<name>>

\* ------------------------------------------------------------ responses
NoReq == [op |-> "none"]
NoResp == [status |-> 0]


\* Mutant: the application has no error middleware of its own, and express
\* answers with its default.
ErrorMiddlewareDefault(kind, msg) ==
    [status |-> 500, body |-> [error |-> "Internal Server Error"]]

\* What the error handling middleware answers for an error `kind` with message `msg`.
ErrorMiddleware(kind, msg) ==
    IF kind = "LIMIT_FILE_SIZE"
    THEN [status |-> 400, body |-> [error |-> "File too large. Maximum size is 10MB."]]
    ELSE [status |-> 500, body |-> [error |-> msg]]

\* The message of the error a failed fs call throws.
WriteError(w) == IF w = "eopen" THEN "EACCES: data.json" ELSE "ENOSPC: data.json"

\* -------------------------------------------------------------- actions
Init ==
    /\ storyboardData = EmptyData
    /\ doc = DocAbsent
    /\ blobs = {}
    /\ inflight = <<>>
    /\ now = 1
    /\ req = NoReq
    /\ resp = NoResp
    /\ fsops = <<>>
    /\ faults = 0
    /\ toggles = <<>>

\* A millisecond passes.
Tick ==
    /\ toggles' = <<>>
    /\ now < MaxClock
    /\ now' = now + 1
    /\ req' = [op |-> "tick"]
    /\ resp' = NoResp
    /\ fsops' = <<>>
    /\ UNCHANGED <<storyboardData, doc, blobs, inflight, faults>>

\* An outcome is drawn only for a call the step makes.
NotCalled(o) == o = "ok"

\* GET /. page = "static": ./public/index.html exists and express.static answers
\* before the route is reached; "sent": the route runs and sendFile succeeds;
\* "enoent": the route runs and sendFile finds no file.
PageOutcomes == {"static", "sent", "enoent"}
Visit(page, w) ==
    LET data == [storyboardData EXCEPT !.stats.totalVisits = @ + 1] IN
    /\ toggles' = <<>>
    /\ req' = [op |-> "visit", page |-> page]
    /\ UNCHANGED <<blobs, inflight, now>>
    /\ IF page = "static"
       THEN /\ NotCalled(w)
            /\ resp' = [status |-> 200, body |-> [file |-> "index.html"]]
            /\ fsops' = <<>>
            /\ UNCHANGED <<storyboardData, doc, faults>>
       ELSE /\ storyboardData.stats.totalVisits < MaxVisits
            /\ Failing(Cost(w))
            /\ storyboardData' = data
            /\ doc' = saveData(doc, data, w)
            /\ fsops' = Called("writeFileSync", WriteThrows(w))
            /\ resp' = IF WriteThrows(w) THEN ErrorMiddleware("Error", WriteError(w))
                       ELSE IF page = "sent"
                       THEN [status |-> 200, body |-> [file |-> "index.html"]]
                       ELSE ErrorMiddleware("Error", "ENOENT: index.html")

\* GET /api/images
GetImages ==
    /\ toggles' = <<>>
    /\ req' = [op |-> "images"]
    /\ resp' = [status |-> 200, body |-> [images |-> storyboardData.images]]
    /\ fsops' = <<>>
    /\ UNCHANGED <<storyboardData, doc, blobs, inflight, now, faults>>

\* GET /api/stats
GetStats ==
    /\ toggles' = <<>>
    /\ req' = [op |-> "stats"]
    /\ resp' = [status |-> 200, body |-> [stats |-> storyboardData.stats]]
    /\ fsops' = <<>>
    /\ UNCHANGED <<storyboardData, doc, blobs, inflight, now, faults>>

\* Mutant: the prefix is tested without its slash.
fileFilterNoSlash(mimetype) == StartsWith(mimetype, ImageNoSlash)

\* multer's fileFilter
fileFilter(mimetype) == StartsWith(mimetype, ImagePrefix)

\* storage.filename: Date.now() + '-' + random + extname
uniqueName(t, rnd, ext) == <<t, rnd, ext>>

\* POST /api/upload with a file part the filter refuses: multer stores nothing
\* and hands the filter's error to the error middleware.
UploadRejected(mimetype, title, description) ==
    /\ ~fileFilter(mimetype)
    /\ toggles' = <<>>
    /\ req' = [op |-> "upload", kind |-> "filtered", mimetype |-> mimetype,
               title |-> title, description |-> description]
    /\ resp' = ErrorMiddleware("Error", "Only image files are allowed!")
    /\ fsops' = <<>>
    /\ UNCHANGED <<storyboardData, doc, blobs, inflight, now, faults>>

\* POST /api/upload, multer reaching a file part the filter accepts: the file is
\* created under uploads/ and streamed while other requests are served. At most
\* cap entries and uploads in flight together; with fresh, the random component
\* does what it is there for and the name is one no file under uploads/ has.
UploadFileStart(mimetype, rnd, ext, cap, fresh) ==
    LET fn == uniqueName(now, rnd, ext) IN
    /\ fileFilter(mimetype)
    /\ fresh => fn \notin blobs
    /\ toggles' = <<>>
    /\ Len(inflight) < MaxInflight
    /\ Len(storyboardData.images) + Len(inflight) < cap
    /\ blobs' = blobs \cup {fn}
    /\ inflight' = Append(inflight, fn)
    /\ req' = [op |-> "upload-file", mimetype |-> mimetype, filename |-> fn]
    /\ resp' = NoResp
    /\ fsops' = <<"createWriteStream">>
    /\ UNCHANGED <<storyboardData, doc, now, faults>>

\* POST /api/upload without a file part: the handler runs with req.file undefined.
UploadNoFile ==
    /\ toggles' = <<>>
    /\ req' = [op |-> "upload", kind |-> "nofile"]
    /\ resp' = [status |-> 400, body |-> [error |-> "No image file provided"]]
    /\ fsops' = <<>>
    /\ UNCHANGED <<storyboardData, doc, blobs, inflight, now, faults>>

\* The entry the upload handler builds.
newImage(t, title, description, fn) ==
    [id |-> t, title |-> title, description |-> description, date |-> [iso |-> t],
     isFavorite |-> FALSE, filename |-> fn, url |-> <<"/uploads/", fn>>]

\* Mutant: the list is replaced by one that holds the new entry only.
InsertedOverwrites(data, e) ==
    [data EXCEPT !.images = <<e>>, !.stats.totalImages = 1]

\* storyboardData after unshift and the totalImages assignment.
Inserted(data, e) ==
    LET imgs == unshift(data.images, e) IN
    [data EXCEPT !.images = imgs, !.stats.totalImages = Len(imgs)]

\* POST /api/upload, the k-th upload in flight growing past limits.fileSize:
\* multer removes the file and hands LIMIT_FILE_SIZE to the error middleware.
UploadTooLarge(k) ==
    LET fn == inflight[k] IN
    /\ k \in 1..Len(inflight)
    /\ inflight' = SubSeq(inflight, 1, k - 1) \o SubSeq(inflight, k + 1, Len(inflight))
    /\ toggles' = <<>>
    /\ req' = [op |-> "upload", kind |-> "toolarge", filename |-> fn]
    /\ blobs' = blobs \ {fn}
    /\ fsops' = <<"unlink">>
    /\ resp' = ErrorMiddleware("LIMIT_FILE_SIZE", "File too large")
    /\ UNCHANGED <<storyboardData, doc, now, faults>>

\* POST /api/upload, multer done with the k-th upload in flight: the handler runs
\* to its response. Whatever it throws is caught and answered 500.
UploadHandle(k, title, description, u, w) ==
    LET fn == inflight[k]
        e == newImage(now, title, description, fn)
        data == Inserted(storyboardData, e)
    IN
    /\ k \in 1..Len(inflight)
    /\ inflight' = SubSeq(inflight, 1, k - 1) \o SubSeq(inflight, k + 1, Len(inflight))
    /\ toggles' = <<>>
    /\ req' = [op |-> "upload", kind |-> "handled", filename |-> fn,
               title |-> title, description |-> description]
    /\ UNCHANGED now
    /\ IF Falsy(title) \/ Falsy(description)
       THEN /\ NotCalled(w)
            /\ Failing(Cost(u))
            /\ blobs' = unlinkSync(blobs, fn, u)
            /\ fsops' = Called("unlinkSync", UnlinkThrows(blobs, fn, u))
            /\ resp' = IF UnlinkThrows(blobs, fn, u)
                       THEN [status |-> 500, body |-> [error |-> "Failed to upload image"]]
                       ELSE [status |-> 400,
                             body |-> [error |-> "Title and description are required"]]
            /\ UNCHANGED <<storyboardData, doc>>
       ELSE /\ NotCalled(u)
            /\ Len(storyboardData.images) < MaxImages
            /\ Failing(Cost(w))
            /\ storyboardData' = data
            /\ doc' = saveData(doc, data, w)
            /\ fsops' = Called("writeFileSync", WriteThrows(w))
            /\ resp' = IF WriteThrows(w)
                       THEN [status |-> 500, body |-> [error |-> "Failed to upload image"]]
                       ELSE [status |-> 200,
                             body |-> [success |-> TRUE, image |-> e,
                                       message |-> "Image uploaded successfully"]]
            /\ UNCHANGED blobs

\* Mutant: the flag is set instead of flipped.
ToggledOn(data, i) ==
    LET imgs == [data.images EXCEPT ![i].isFavorite = TRUE] IN
    [data EXCEPT !.images = imgs, !.stats.totalFavorites = FavoriteCount(imgs)]

\* Mutant: the counter is incremented instead of recounted.
ToggledIncrement(data, i) ==
    LET imgs == [data.images EXCEPT ![i].isFavorite = ~@] IN
    [data EXCEPT !.images = imgs, !.stats.totalFavorites = @ + 1]

\* storyboardData after the favorite handler's flip of images[i] and its recount.
Toggled(data, i) ==
    LET imgs == [data.images EXCEPT ![i].isFavorite = ~@] IN
    [data EXCEPT !.images = imgs, !.stats.totalFavorites = FavoriteCount(imgs)]

\* POST /api/favorite/:id
Favorite(param, w) ==
    LET imageId == parseInt(param)
        i == findIndex(storyboardData.images, imageId)
        data == Toggled(storyboardData, i)
    IN
    /\ req' = [op |-> "favorite", param |-> param, imageId |-> imageId]
    /\ UNCHANGED <<blobs, inflight, now>>
    /\ IF i # 0
       THEN /\ Failing(Cost(w))
            /\ storyboardData' = data
            /\ doc' = saveData(doc, data, w)
            /\ fsops' = Called("writeFileSync", WriteThrows(w))
            /\ resp' = IF WriteThrows(w) THEN ErrorMiddleware("Error", WriteError(w))
                       ELSE [status |-> 200,
                             body |-> [success |-> TRUE,
                                       isFavorite |-> data.images[i].isFavorite]]
            /\ toggles' = IF toggles # <<>> /\ req.op = "favorite" /\ req.imageId = imageId
                          THEN <<toggles[Len(toggles)], storyboardData>>
                          ELSE <<storyboardData>>
       ELSE /\ NotCalled(w)
            /\ toggles' = <<>>
            /\ resp' = [status |-> 404, body |-> [error |-> "Image not found"]]
            /\ fsops' = <<>>
            /\ UNCHANGED <<storyboardData, doc, faults>>

\* Mutant: totalFavorites is not recounted after the splice.
RemovedNoRecount(data, i) ==
    LET imgs == splice(data.images, i) IN
    [data EXCEPT !.images = imgs, !.stats.totalImages = Len(imgs)]

\* storyboardData after the delete handler's splice of images[i] and its recounts.
Removed(data, i) ==
    LET imgs == splice(data.images, i) IN
    [data EXCEPT !.images = imgs,
                 !.stats.totalImages = Len(imgs),
                 !.stats.totalFavorites = FavoriteCount(imgs)]

\* Mutant: unlinkSync is called outside a try block, and what it throws ends
\* the handler and reaches the error middleware.
DeleteUnlinkUncaught(param, u, w) ==
    LET imageId == parseInt(param)
        i == findIndex(storyboardData.images, imageId)
        data == Removed(storyboardData, i)
        thrown == UnlinkThrows(blobs, storyboardData.images[i].filename, u)
    IN
    /\ toggles' = <<>>
    /\ req' = [op |-> "delete", param |-> param, imageId |-> imageId]
    /\ UNCHANGED <<inflight, now>>
    /\ IF i # 0
       THEN /\ Failing(Cost(u) + Cost(w))
            /\ blobs' = unlinkSync(blobs, storyboardData.images[i].filename, u)
            /\ storyboardData' = IF thrown THEN storyboardData ELSE data
            /\ doc' = IF thrown THEN doc ELSE saveData(doc, data, w)
            /\ fsops' = IF thrown THEN Called("unlinkSync", TRUE)
                        ELSE <<"unlinkSync">> \o Called("writeFileSync", WriteThrows(w))
            /\ resp' = IF thrown THEN ErrorMiddleware("Error", "EPERM: unlink")
                       ELSE IF WriteThrows(w) THEN ErrorMiddleware("Error", WriteError(w))
                       ELSE [status |-> 200,
                             body |-> [success |-> TRUE,
                                       message |-> "Image deleted successfully"]]
       ELSE /\ NotCalled(u) /\ NotCalled(w)
            /\ resp' = [status |-> 404, body |-> [error |-> "Image not found"]]
            /\ fsops' = <<>>
            /\ UNCHANGED <<storyboardData, doc, blobs, faults>>

\* DELETE /api/images/:id. A throw of unlinkSync is caught and logged.
Delete(param, u, w) ==
    LET imageId == parseInt(param)
        i == findIndex(storyboardData.images, imageId)
        data == Removed(storyboardData, i)
    IN
    /\ toggles' = <<>>
    /\ req' = [op |-> "delete", param |-> param, imageId |-> imageId]
    /\ UNCHANGED <<inflight, now>>
    /\ IF i # 0
       THEN /\ Failing(Cost(u) + Cost(w))
            /\ blobs' = unlinkSync(blobs, storyboardData.images[i].filename, u)
            /\ storyboardData' = data
            /\ doc' = saveData(doc, data, w)
            /\ fsops' = IF UnlinkThrows(blobs, storyboardData.images[i].filename, u)
                        THEN Called("unlinkSync", TRUE) \o <<"console.log">>
                                \o Called("writeFileSync", WriteThrows(w))
                        ELSE <<"unlinkSync">> \o Called("writeFileSync", WriteThrows(w))
            /\ resp' = IF WriteThrows(w) THEN ErrorMiddleware("Error", WriteError(w))
                       ELSE [status |-> 200,
                             body |-> [success |-> TRUE,
                                       message |-> "Image deleted successfully"]]
       ELSE /\ NotCalled(u) /\ NotCalled(w)
            /\ resp' = [status |-> 404, body |-> [error |-> "Image not found"]]
            /\ fsops' = <<>>
            /\ UNCHANGED <<storyboardData, doc, blobs, faults>>

\* Mutant: any password that is given is accepted.
LoginAnyGiven(password) ==
    /\ toggles' = <<>>
    /\ req' = [op |-> "login", password |-> password]
    /\ resp' = IF password # Missing
               THEN [status |-> 200,
                     body |-> [success |-> TRUE, message |-> "Login successful"]]
               ELSE [status |-> 401,
                     body |-> [success |-> FALSE, error |-> "Invalid password"]]
    /\ fsops' = <<>>
    /\ UNCHANGED <<storyboardData, doc, blobs, inflight, now, faults>>

\* POST /api/login
Passwords == {Missing, "admin", "Admin"}
Login(password) ==
    /\ toggles' = <<>>
    /\ req' = [op |-> "login", password |-> password]
    /\ resp' = IF password = "admin"
               THEN [status |-> 200,
                     body |-> [success |-> TRUE, message |-> "Login successful"]]
               ELSE [status |-> 401,
                     body |-> [success |-> FALSE, error |-> "Invalid password"]]
    /\ fsops' = <<>>
    /\ UNCHANGED <<storyboardData, doc, blobs, inflight, now, faults>>

\* The process is stopped with no upload in flight and started again: the module
\* body runs, and storyboardData is what the load block leaves.
Restart ==
    /\ toggles' = <<>>
    /\ inflight = <<>>
    /\ storyboardData' = Load(doc)
    /\ req' = [op |-> "restart"]
    /\ resp' = NoResp
    /\ fsops' = <<"readFileSync">>
    /\ UNCHANGED <<doc, blobs, inflight, now, faults>>

\* The process dies and is started again. Uploads in flight are gone and their
\* files stay; a death inside writeFileSync (midWrite) leaves data.json truncated.
Crash(midWrite) ==
    LET d == IF midWrite THEN DocCorrupt ELSE doc IN
    /\ Failing(1)
    /\ toggles' = <<>>
    /\ doc' = d
    /\ storyboardData' = Load(d)
    /\ inflight' = <<>>
    /\ req' = [op |-> "crash", midWrite |-> midWrite]
    /\ resp' = NoResp
    /\ fsops' = <<"readFileSync">>
    /\ UNCHANGED <<blobs, now>>

\* The requests, with the outcomes W of writeFileSync and U of unlinkSync.
Requests(W, U, cap, fresh) ==
    \/ \E page \in PageOutcomes, w \in W : Visit(page, w)
    \/ GetImages
    \/ GetStats
    \/ \E m \in MimeTypes, b \in FilteredBodies : UploadRejected(m, b[1], b[2])
    \/ \E m \in MimeTypes, rnd \in 0..MaxRnd, ext \in Exts :
          UploadFileStart(m, rnd, ext, cap, fresh)
    \/ UploadNoFile
    \/ \E k \in 1..MaxInflight : UploadTooLarge(k)
    \/ \E k \in 1..MaxInflight, b \in Bodies, u \in U, w \in W :
          UploadHandle(k, b[1], b[2], u, w)
    \/ \E p \in IdParams, w \in W : Favorite(p, w)
    \/ \E p \in IdParams, u \in U, w \in W : Delete(p, u, w)
    \/ \E pw \in Passwords : Login(pw)

\* The server on a file system whose calls succeed, with generated names that
\* do not collide.
Next ==
    \/ Tick
    \/ Requests({"ok"}, {"ok"}, MaxFiles, TRUE)
    \/ Restart

Spec == Init /\ [][Next]_vars

\* The server with failing fs calls and crashes.
NextFault ==
    \/ Tick
    \/ Requests(WriteOutcomes, UnlinkOutcomes, MaxFilesFault, TRUE)
    \/ Restart
    \/ \E midWrite \in BOOLEAN : Crash(midWrite)

SpecFault == Init /\ [][NextFault]_vars

\* The server on a file system whose calls succeed, where Math.random() may
\* return what it returned before within the same millisecond.
NextCollide ==
    \/ Tick
    \/ Requests({"ok"}, {"ok"}, MaxFiles, FALSE)
    \/ Restart

SpecCollide == Init /\ [][NextCollide]_vars

\* ---------------------------------------------------------------- claims
images == storyboardData.images
stats == storyboardData.stats

\* The id is the id of some entry of the list.
Present(imgs, imageId) == \E i \in 1..Len(imgs) : imgs[i].id = imageId

\* The last step was the upload handler running with a file.
Handled(r) == r.op = "upload" /\ r.kind = "handled"
\* ... with a title or a description that is missing or empty.
Incomplete(r) == r.title \in {Missing, ""} \/ r.description \in {Missing, ""}

\* C1: after every completed operation, stats.totalImages is the number of
\* entries of images and stats.totalFavorites the number of entries with
\* isFavorite = true.
C1_CountersMatch ==
    /\ stats.totalImages = Len(images)
    /\ stats.totalFavorites = FavoriteCount(images)

\* A favorite entry was deleted while another entry and a visit are counted.
C1_Witness ==
    /\ req.op = "delete" /\ resp.status = 200
    /\ Len(images) = 1 /\ stats.totalVisits = 1
    /\ ~images[1].isFavorite
    /\ blobs = {images[1].filename}

\* C2 as stated: an upload with an attachment and a non-empty title and
\* description puts a new non-favorite entry at the front, sets totalImages and
\* answers success with that entry, whatever the attachment is.
C2_AnyAttachment ==
    (req.op = "upload" /\ req.kind \in {"filtered", "handled"} /\ ~Incomplete(req))
        => /\ resp.status = 200
           /\ Len(images) > 0
           /\ resp.body.image = images[1]
           /\ ~images[1].isFavorite
           /\ stats.totalImages = Len(images)

\* C2, amended: an upload whose attachment passed the type filter and the size
\* limit, with a non-empty title and description, puts a new entry with
\* isFavorite = false at index 0, keeps the earlier entries unchanged and in
\* order behind it, sets totalImages to the new length and answers success with
\* that entry.
C2_UploadPrepends ==
    [][(Handled(req') /\ ~Incomplete(req'))
        => /\ Len(storyboardData'.images) = Len(images) + 1
           /\ Tail(storyboardData'.images) = images
           /\ storyboardData'.images[1].isFavorite = FALSE
           /\ storyboardData'.images[1].title = req'.title
           /\ storyboardData'.images[1].description = req'.description
           /\ storyboardData'.images[1].filename = req'.filename
           /\ storyboardData'.stats.totalImages = Len(images) + 1
           /\ resp'.status = 200
           /\ resp'.body.success
           /\ resp'.body.image = storyboardData'.images[1]]_vars

\* An upload was accepted in front of a favorite entry.
C2_Witness ==
    /\ Handled(req) /\ resp.status = 200
    /\ Len(images) = 2
    /\ images[2].isFavorite

\* C3 as stated: deleting a present id removes the entry so that no entry with
\* that id remains, removes its blob, keeps the other entries unchanged and in
\* order, and sets both counters to the counts of what remains.
C3_DeleteRemovesId ==
    [][(req'.op = "delete" /\ Present(images, req'.imageId))
        => /\ ~Present(storyboardData'.images, req'.imageId)
           /\ \E i \in 1..Len(images) :
                /\ images[i].id = req'.imageId
                /\ storyboardData'.images = splice(images, i)
                /\ images[i].filename \notin blobs'
           /\ storyboardData'.stats.totalImages = Len(storyboardData'.images)
           /\ storyboardData'.stats.totalFavorites = FavoriteCount(storyboardData'.images)]_vars

\* C4: a toggle on a present id flips isFavorite on exactly one entry, one with
\* that id, reports the new value, changes totalFavorites by +1 or -1 to match,
\* and leaves the other entries, the order, totalImages and totalVisits alone.
C4_ToggleFlipsOne ==
    [][(req'.op = "favorite" /\ Present(images, req'.imageId))
        => \E i \in 1..Len(images) :
            /\ images[i].id = req'.imageId
            /\ storyboardData'.images = [images EXCEPT ![i].isFavorite = ~images[i].isFavorite]
            /\ resp'.status = 200
            /\ resp'.body.isFavorite = ~images[i].isFavorite
            /\ storyboardData'.stats.totalFavorites =
                    stats.totalFavorites + (IF images[i].isFavorite THEN -1 ELSE 1)
            /\ storyboardData'.stats.totalImages = stats.totalImages
            /\ storyboardData'.stats.totalVisits = stats.totalVisits]_vars

\* A favorite entry was toggled off beside an entry that stays favorite.
C4_Witness ==
    /\ req.op = "favorite" /\ resp.status = 200
    /\ resp.body.isFavorite = FALSE
    /\ Len(images) = 2
    /\ stats.totalFavorites = 1

\* C5: two toggles in a row on the same present id leave the catalog as it was
\* before the two.
C5_ToggleTwice ==
    Len(toggles) = 2 => storyboardData = toggles[1]

\* The second of two toggles in a row has run on a catalog of two entries, one
\* of them favorite.
C5_Witness ==
    /\ Len(toggles) = 2
    /\ req.op = "favorite" /\ resp.status = 200
    /\ Len(images) = 2
    /\ stats.totalFavorites = 1

\* C6: a toggle or a delete on an id that is not in the catalog answers 404 and
\* changes nothing: not images, the stats, the blob directory or the document,
\* and it makes no fs call.
C6_UnknownIdNoMutation ==
    [][(req'.op \in {"favorite", "delete"} /\ ~Present(images, req'.imageId))
        => /\ resp'.status = 404
           /\ storyboardData' = storyboardData
           /\ blobs' = blobs
           /\ doc' = doc
           /\ fsops' = <<>>]_vars

\* A delete of a numeric id no entry has was answered while the catalog holds
\* two entries.
C6_Witness ==
    /\ req.op = "delete" /\ resp.status = 404
    /\ req.imageId # NaN
    /\ Len(images) = 2
    /\ Cardinality(blobs) = 2

\* C7: an upload whose attachment has a content type that does not begin with
\* image/ adds no entry, changes neither stats nor document, and leaves no
\* file under uploads/, whatever title and description it carries.
C7_NonImageNoTrace ==
    [][((req'.op = "upload-file" \/ (req'.op = "upload" /\ req'.kind = "filtered"))
            /\ ~StartsWith(req'.mimetype, ImagePrefix))
        => /\ storyboardData' = storyboardData
           /\ doc' = doc
           /\ blobs' = blobs
           /\ resp'.status \notin {0, 200}]_vars

\* An upload of type "image" (no slash) with a title and description was
\* refused beside an existing entry.
C7_Witness ==
    /\ req.op = "upload" /\ req.kind = "filtered"
    /\ req.mimetype = ImageNoSlash
    /\ ~Incomplete(req)
    /\ Len(images) = 1
    /\ blobs = {images[1].filename}

\* C8: an upload with an accepted image but an empty or missing title or
\* description deletes the file just written for it, answers 400 and leaves
\* images, stats and document unchanged.
C8_IncompleteUploadCleansUp ==
    [][(Handled(req') /\ Incomplete(req'))
        => /\ req'.filename \in blobs
           /\ blobs' = blobs \ {req'.filename}
           /\ resp'.status = 400
           /\ storyboardData' = storyboardData
           /\ doc' = doc]_vars

\* An upload with an empty title was refused beside an existing entry, whose
\* file is the only one left.
C8_Witness ==
    /\ Handled(req) /\ req.title = ""
    /\ resp.status = 400
    /\ Len(images) = 1
    /\ blobs = {images[1].filename}

\* C9 as stated: an upload refused by validation (no file, missing title or
\* description, wrong content type, file too large) is answered 400 and leaves
\* the document as it was.
C9_RejectedIs400 ==
    [][(req'.op = "upload"
            /\ (req'.kind \in {"nofile", "filtered", "toolarge"}
                   \/ (req'.kind = "handled" /\ Incomplete(req'))))
        => /\ resp'.status = 400
           /\ doc' = doc]_vars

\* A request answered by one of the mutating route handlers.
MutatingRoute(r) ==
    \/ r.op \in {"favorite", "delete"}
    \/ Handled(r)
    \/ (r.op = "visit" /\ r.page # "static")

C11_FilenameMapsToFile ==
    [][/\ \A i \in 1..Len(storyboardData'.images) :
            storyboardData'.images[i].filename \in blobs'
       /\ \A i, j \in 1..Len(storyboardData'.images) :
            i # j => storyboardData'.images[i].filename # storyboardData'.images[j].filename
       /\ (req'.op = "delete" /\ resp'.status = 200)
            => \E i \in 1..Len(images) :
                 /\ storyboardData'.images = splice(images, i)
                 /\ images[i].filename \notin blobs']_vars

\* C12 as stated: no two entries of the catalog have the same id, the clock
\* each upload handler reads never going backwards.
C12_UniqueIds ==
    \A i, j \in 1..Len(images) : i # j => images[i].id # images[j].id

\* C13: at process start an absent or unparsable data.json (one truncated by a
\* death inside a write included) gives the empty catalog and no error reaches
\* anyone; a well-formed data.json gives the catalog it holds.
C13_LoadOrEmpty ==
    [][(req'.op \in {"restart", "crash"})
        => /\ resp' = NoResp
           /\ doc'.state \in {"absent", "corrupt"}
                => /\ storyboardData'.images = <<>>
                   /\ storyboardData'.stats.totalVisits = 0
                   /\ storyboardData'.stats.totalImages = 0
                   /\ storyboardData'.stats.totalFavorites = 0
           /\ doc'.state = "ok"
                => /\ Stringify(storyboardData') = doc'.text
                   /\ storyboardData' = Parse(doc'.text)]_vars

\* The process came up on a data.json truncated by a death inside a write, with
\* a file of a lost entry still under uploads/.
C13_Witness ==
    /\ req.op = "crash" /\ req.midWrite
    /\ doc.state = "corrupt"
    /\ storyboardData = EmptyData
    /\ blobs # {}

\* C14: a login answers 200 exactly when the password is "admin" and 401 for
\* every other value, a missing one included, and changes neither the catalog
\* nor the files under uploads/ nor data.json.
C14_LoginOnlyAdmin ==
    [][(req'.op = "login")
        => /\ resp'.status \in {200, 401}
           /\ resp'.status = 200 <=> req'.password = "admin"
           /\ resp'.body.success <=> req'.password = "admin"
           /\ storyboardData' = storyboardData
           /\ blobs' = blobs
           /\ doc' = doc
           /\ fsops' = <<>>]_vars

\* A login without a password was refused while the catalog holds an entry.
C14_Witness ==
    /\ req.op = "login" /\ req.password = Missing
    /\ resp.status = 401
    /\ Len(images) = 1
    /\ blobs # {}

\* The millisecond in which multer started the file of an entry: the first
\* component of its generated filename.
ArrivedAt(e) == e.filename[1]

\* C15 as stated: mutations are applied in arrival order, so of two accepted
\* uploads the one that arrived first is behind the other in the list.
C15_ArrivalOrder ==
    \A i, j \in 1..Len(images) :
        i < j => ArrivedAt(images[i]) >= ArrivedAt(images[j])

\* C15, amended: every change of the image list is the mutation of the one
\* request whose handler ran, applied to the list as it is at that moment: an
\* accepted upload puts its entry in front of everything that is there (the
\* entries of uploads that arrived after it included) and leaves the other
\* uploads in flight, a toggle flips one entry, a delete removes one entry.
\* No entry or flag written by another request is lost.
C15_AppliedInHandlerOrder ==
    [][(storyboardData'.images # images)
        => \/ /\ Handled(req')
              /\ Tail(storyboardData'.images) = images
              /\ storyboardData'.images[1].filename = req'.filename
              /\ \E k \in 1..Len(inflight) :
                    /\ inflight[k] = req'.filename
                    /\ inflight' = SubSeq(inflight, 1, k - 1)
                                      \o SubSeq(inflight, k + 1, Len(inflight))
           \/ /\ req'.op = "favorite"
              /\ inflight' = inflight
              /\ \E i \in 1..Len(images) :
                    storyboardData'.images = [images EXCEPT ![i].isFavorite = ~@]
           \/ /\ req'.op = "delete"
              /\ inflight' = inflight
              /\ \E i \in 1..Len(images) :
                    storyboardData'.images = splice(images, i)]_vars

\* An upload that arrived before another one was handled after it and stands
\* in front of it, the entry behind keeping a flag toggled in between.
C15_Witness ==
    /\ Handled(req) /\ resp.status = 200
    /\ Len(images) = 2
    /\ ArrivedAt(images[1]) < ArrivedAt(images[2])
    /\ images[2].isFavorite

\* The filenames of the entries of a list, in list order.
FilenamesOf(imgs) == [k \in 1..Len(imgs) |-> imgs[k].filename]

C17_NoOrphans ==
    (inflight = <<>>)
        => \A fn \in blobs : \E i \in 1..Len(images) : images[i].filename = fn

\* An oversized upload was refused as the last upload in flight, beside an
\* entry whose file is the only one under uploads/.
C17_Witness ==
    /\ req.op = "upload" /\ req.kind = "toolarge"
    /\ resp.status = 400
    /\ inflight = <<>>
    /\ Len(images) = 1
    /\ blobs = {images[1].filename}

\* The responses a failed write of data.json outside a try block is answered with.
WriteErrorResponses == {ErrorMiddleware("Error", WriteError(w)) : w \in WriteOutcomes \ {"ok"}}

\* C18: when unlinking the file fails in a delete of a present id, the failure
\* is swallowed: the entry is removed all the same, both counters are counted
\* again, data.json is written and the answer is success (the only other answer
\* is the 500 of that write failing as well).
C18_UnlinkFailureSwallowed ==
    [][(/\ req'.op = "delete"
        /\ Present(images, req'.imageId)
        /\ LET fn == images[findIndex(images, req'.imageId)].filename IN
              fn \notin blobs \/ fn \in blobs')
        => /\ storyboardData'.images = splice(images, findIndex(images, req'.imageId))
           /\ storyboardData'.stats.totalImages = Len(storyboardData'.images)
           /\ storyboardData'.stats.totalFavorites = FavoriteCount(storyboardData'.images)
           /\ storyboardData'.stats.totalVisits = stats.totalVisits
           /\ blobs' = blobs
           /\ \E k \in 1..Len(fsops') : fsops'[k] = "writeFileSync"
           /\ resp'.status = 200 \/ resp' \in WriteErrorResponses
           /\ resp'.status = 200 => doc' = DocOf(storyboardData')]_vars

\* A delete whose unlinkSync threw was answered success: the catalog is empty
\* and written, the file is still under uploads/.
C18_Witness ==
    /\ req.op = "delete" /\ resp.status = 200
    /\ fsops = <<"unlinkSync", "throw", "console.log", "writeFileSync">>
    /\ images = <<>>
    /\ stats.totalImages = 0
    /\ blobs # {}
    /\ doc = DocOf(storyboardData)

\* The call `name` is among the calls `ops` and threw.
Threw(ops, name) ==
    \E k \in 1..(Len(ops) - 1) : ops[k] = name /\ ops[k + 1] = "throw"

\* The messages of the errors the failing fs calls throw.
RawMessages == {WriteError(w) : w \in WriteOutcomes \ {"ok"}} \cup {"EPERM: unlink"}

\* The last step of the pair was a request in which an fs call failed
\* unexpectedly: a write of data.json, or the unlink of an upload's file.
UnexpectedFailure ==
    \/ /\ req'.op \in {"visit", "upload", "favorite", "delete"}
       /\ Threw(fsops', "writeFileSync")
    \/ /\ req'.op = "upload"
       /\ Threw(fsops', "unlinkSync")

\* C19 as stated: every unexpected fs failure in a request is answered 500 with
\* the raw message of the error, never with success.
C19_RawMessage ==
    [][UnexpectedFailure
        => /\ resp'.status = 500
           /\ resp'.body.error \in RawMessages]_vars

\* C19, amended: every unexpected fs failure in a request is answered 500, never
\* with success; the answer carries the raw message of the error in visit,
\* toggle and delete, and the fixed text 'Failed to upload image' in upload.
C19_FailureIs500 ==
    [][UnexpectedFailure
        => /\ resp'.status = 500
           /\ (req'.op = "upload") => resp'.body.error = "Failed to upload image"
           /\ (req'.op # "upload") => resp'.body.error \in RawMessages]_vars

\* An upload without a title whose file could not be unlinked was answered 500,
\* the file staying under uploads/ beside the file of an entry.
C19_Witness ==
    /\ Handled(req) /\ Incomplete(req)
    /\ resp.status = 500
    /\ fsops = <<"unlinkSync", "throw">>
    /\ req.filename \in blobs
    /\ Len(images) = 1

\* C20 as stated: every root-page view adds exactly one to totalVisits, writes
\* data.json and leaves images, totalImages and totalFavorites alone, and no
\* other request changes totalVisits.
C20_EveryViewCounted ==
    [][/\ (req'.op = "visit")
            => /\ storyboardData'.stats.totalVisits = stats.totalVisits + 1
               /\ doc' = DocOf(storyboardData')
               /\ storyboardData'.images = images
               /\ storyboardData'.stats.totalImages = stats.totalImages
               /\ storyboardData'.stats.totalFavorites = stats.totalFavorites
       /\ (req'.op \in {"images", "stats", "upload", "upload-file", "favorite",
                        "delete", "login"})
            => storyboardData'.stats.totalVisits = stats.totalVisits]_vars

====
